---- MODULE Spec2Model ----
(***************************************************************************)
(* Model of the chaos entropy analyzer: the text encoders of              *)
(* chaos_encoder.py, the entropy estimators of algorithms.py and the      *)
(* orchestration of Order.get_stats in order.py.                          *)
(*                                                                         *)
(* Numbers.  A text is a sequence of code points.  An encoded array is a  *)
(* record [num, den]: element i is the real num[i] / den (den is 1 for    *)
(* the integer encodings and len(text) for the frequency encoding).  A    *)
(* tolerance r >= 0 is kept as its square, the rational [n, d] with       *)
(* r*r = n / d, so that "distance < r" is decided exactly in integers.    *)
(* An entropy value is kept as its class: "Zero" (exactly 0), "Fin" (a    *)
(* finite value, not further determined), "NaN" or "Inf" (+infinity);     *)
(* logarithms are not evaluated.  Arithmetic is exact: for the inputs      *)
(* drawn here the floating-point mean of equal values is that value, so   *)
(* a constant array has standard deviation exactly 0.                      *)
(*                                                                         *)
(* Spec follows one call of Order.get_stats step by step; SpecEncode and   *)
(* SpecSampEn apply ChaosEncoder.encode and Algorithms.sample_entropy to   *)
(* inputs of their own.                                                    *)
(***************************************************************************)
EXTENDS Integers, Sequences, FiniteSets, TLC

\* ------------------------------------------------------------------ bounds
MaxLen == 4
MaxEncs == 2
MaxAlgs == 2
MaxEncLen == 2
MaxSeqLen == 4
MaxDim == 2

\* ------------------------------------------------------------- enumerations
EncodingModel == {"ordinal", "one_hot", "frequency", "binary"}

AlgorithmType ==
  {"shannon_entropy", "approximate_entropy", "sample_entropy",
   "permutation_entropy", "multiscale_entropy"}

\* Order.__init__: self._valid_algorithms
ValidAlgorithms ==
  {"shannon_entropy", "approximate_entropy", "sample_entropy", "permutation_entropy"}

\* ------------------------------------------------------------------ helpers
Max(a, b) == IF a >= b THEN a ELSE b

Abs(x) == IF x >= 0 THEN x ELSE -x

RECURSIVE SumSeq(_)
SumSeq(s) == IF s = <<>> THEN 0 ELSE Head(s) + SumSeq(Tail(s))

Range(s) == {s[i] : i \in 1..Len(s)}

\* len(set(xs)) != len(xs)
HasDuplicates(xs) == Cardinality(Range(xs)) # Len(xs)

\* time_series[i : i + dim] for a 0-based start i (here 1-based: start i)
Window(ts, i, dim) == SubSeq(ts, i, i + dim - 1)

\* d / den < r, where r >= 0 and r * r = rsq.n / rsq.d
LessThanTol(d, den, rsq) == d * d * rsq.d < rsq.n * den * den

\* max(abs(w_i - w_j)) < r for the windows of length dim >= 1 that start at i
\* and at j: the largest coordinate distance is below r exactly when every
\* coordinate distance is
Within(num, i, j, dim, den, rsq) ==
  \A k \in 0..(dim - 1) : LessThanTol(Abs(num[i + k] - num[j + k]), den, rsq)

\* ----------------------------------------------------------------- encoders
\* ChaosEncoder._ordinal_encode
OrdinalEncode(text) == [num |-> text, den |-> 1]

\* ChaosEncoder._one_hot_encode: one row per character, flattened row-major
OneHotEncode(text) ==
  LET U == Range(text)
      k == Cardinality(U)
      Rank(c) == Cardinality({u \in U : u < c})
  IN [num |-> [p \in 1..(Len(text) * k) |->
                 IF Rank(text[((p - 1) \div k) + 1]) = (p - 1) % k THEN 1 ELSE 0],
      den |-> 1]

\* ChaosEncoder._frequency_encode: char_freq[c] / total_chars
FrequencyEncode(text) ==
  [num |-> [i \in 1..Len(text) |->
              Cardinality({j \in 1..Len(text) : text[j] = text[i]})],
   den |-> Len(text)]

\* bin(n) without the prefix: the binary digits of n, most significant first
RECURSIVE Bits(_)
Bits(n) == IF n < 2 THEN <<n>> ELSE Append(Bits(n \div 2), n % 2)

\* format(n, "08b"): zero-padded on the left to a MINIMUM width of 8
Format08b(n) ==
  LET b == Bits(n)
  IN [i \in 1..Max(8, Len(b)) |->
        IF i <= Max(8, Len(b)) - Len(b) THEN 0 ELSE b[i - (Max(8, Len(b)) - Len(b))]]

RECURSIVE BinaryDigits(_)
BinaryDigits(text) ==
  IF text = <<>> THEN <<>> ELSE Format08b(Head(text)) \o BinaryDigits(Tail(text))

\* ChaosEncoder._binary_encode
BinaryEncode(text) == [num |-> BinaryDigits(text), den |-> 1]

\* ChaosEncoder.encode: the array, or (ok = FALSE) the ValueError for a
\* model that is no key of encoding_methods
Encode(text, model) ==
  CASE model = "ordinal" -> [ok |-> TRUE, array |-> OrdinalEncode(text)]
    [] model = "one_hot" -> [ok |-> TRUE, array |-> OneHotEncode(text)]
    [] model = "frequency" -> [ok |-> TRUE, array |-> FrequencyEncode(text)]
    [] model = "binary" -> [ok |-> TRUE, array |-> BinaryEncode(text)]
    [] OTHER -> [ok |-> FALSE, array |-> [num |-> <<>>, den |-> 1]]

\* --------------------------------------------------------------- algorithms
\* Algorithms.shannon_entropy: -sum(p * log2(p)) over the distinct values;
\* one distinct value gives p = 1 and the value 0, several give a positive value
ShannonEntropy(ts) ==
  IF Cardinality(Range(ts.num)) = 1 THEN "Zero" ELSE "Fin"

\* _phi(m_val) of Algorithms.approximate_entropy, as the class of its value:
\* np.zeros(n) raises for n < 0; for n = 0 the sum is 0.0 and 0.0 / 0 is nan;
\* a window with count 0 contributes log(0) = -inf
Phi(ts, mval, rsq) ==
  LET N == Len(ts.num)
      n == N - mval + 1
  IN IF n < 0 THEN "Raise"
     ELSE IF n = 0 THEN "NaN"
     ELSE IF \E i \in 1..n : \A j \in 1..n : ~Within(ts.num, i, j, mval, ts.den, rsq)
          THEN "NegInf"
     ELSE "Fin"

\* Algorithms.approximate_entropy: abs(_phi(m) - _phi(m + 1))
ApproximateEntropy(ts, m, rsq) ==
  LET a == Phi(ts, m, rsq)
      b == Phi(ts, m + 1, rsq)
  IN IF a = "Raise" \/ b = "Raise" THEN "Raise"
     ELSE IF a = "NaN" \/ b = "NaN" THEN "NaN"
     ELSE IF a = "NegInf" /\ b = "NegInf" THEN "NaN"
     ELSE IF a = "NegInf" \/ b = "NegInf" THEN "Inf"
     ELSE "Fin"

\* len(create_vectors(dim)) in Algorithms.sample_entropy: range(N - dim + 1)
NumVectors(num, dim) == Max(Len(num) - dim + 1, 0)

\* one loop of sample_entropy: for each template i in range(loops), the sum
\* np.sum((distances < r) & (np.arange(len(distances)) != i)) over the
\* vectors of dimension dim; the total is the number of pairs (i, j) counted
PairCount(num, dim, loops, den, rsq) ==
  Cardinality({p \in (1..Max(loops, 0)) \X (1..NumVectors(num, dim)) :
                 p[1] # p[2] /\ Within(num, p[1], p[2], dim, den, rsq)})

\* the loop "for i in range(N - m)" accumulating B over xm
SampEnB(ts, m, rsq) == PairCount(ts.num, m, Len(ts.num) - m, ts.den, rsq)

\* the loop "for i in range(N - m - 1)" accumulating A over xm1
SampEnA(ts, m, rsq) == PairCount(ts.num, m + 1, Len(ts.num) - m - 1, ts.den, rsq)

\* Algorithms.sample_entropy: -np.log(A / B) if B > 0 and A > 0 else np.inf
\* faulty variant of SampEnResult: the guard dropped, so that 0 / 0 is evaluated
SampEnResultNoGuard(A, B) ==
  IF B = 0 THEN "NaN" ELSE IF A = 0 THEN "Inf" ELSE IF A = B THEN "Zero" ELSE "Fin"

\* the return of sample_entropy: -log(A / B) is 0 for A = B
SampEnResult(A, B) ==
  IF B > 0 /\ A > 0 THEN (IF A = B THEN "Zero" ELSE "Fin") ELSE "Inf"

SampleEntropy(ts, m, rsq) == SampEnResult(SampEnA(ts, m, rsq), SampEnB(ts, m, rsq))

\* np.argsort of a pattern: indices by increasing value, ties by index
ArgSort(p) ==
  LET n == Len(p)
      Before(a, b) == p[a] < p[b] \/ (p[a] = p[b] /\ a < b)
  IN [k \in 1..n |->
        CHOOSE a \in 1..n : Cardinality({b \in 1..n : Before(b, a)}) = k - 1]

\* Algorithms.permutation_entropy with order = 3, delay = 1: the Shannon
\* entropy of the pattern frequencies; no window or one pattern gives 0
PermutationEntropy(ts, order) ==
  LET n == Len(ts.num)
      keys == {ArgSort(Window(ts.num, i, order)) : i \in 1..Max(n - (order - 1), 0)}
  IN IF Cardinality(keys) <= 1 THEN "Zero" ELSE "Fin"

\* 0.2 * float(x.std()), squared: 0.04 * (N * sum(x^2) - sum(x)^2) / N^2
StdTolerance(ts) ==
  LET N == Len(ts.num)
      s1 == SumSeq(ts.num)
      s2 == SumSeq([i \in 1..N |-> ts.num[i] * ts.num[i]])
  IN [n |-> N * s2 - s1 * s1, d |-> 25 * N * N * ts.den * ts.den]

\* Order._get_algorithm_function applied to the data: m = 2, r = 0.2 * std
AlgoFunc(algorithm, ts) ==
  CASE algorithm = "shannon_entropy" -> ShannonEntropy(ts)
    [] algorithm = "approximate_entropy" -> ApproximateEntropy(ts, 2, StdTolerance(ts))
    [] algorithm = "sample_entropy" -> SampleEntropy(ts, 2, StdTolerance(ts))
    [] algorithm = "permutation_entropy" -> PermutationEntropy(ts, 3)
    [] OTHER -> "Unsupported"

\* faulty variant of IsFinite: no check at all
IsFiniteNoCheck(v) == TRUE

\* faulty variant of IsFinite: only NaN is rejected (np.isnan for np.isfinite)
IsFiniteNaNOnly(v) == v # "NaN"

\* np.isfinite(entropy)
IsFinite(v) == v \in {"Zero", "Fin"}

\* --------------------------------------------------------------- Order
\* the ValueError messages of order.py; an error is the record
\* [msg, encoding, inner, algorithm, reason]: the outer message, the encoding
\* it names, the message it wraps, the algorithm that names, and its reason
MsgInvalidInput == "Input data must be a non-empty string"
MsgDuplicateEncodings == "Duplicate encoding models detected"
MsgInvalidEncodings == "Invalid encoding models"
MsgDuplicateAlgorithms == "Duplicate algorithms detected"
MsgUnsupportedAlgorithms == "Unsupported algorithm types"
MsgProcessing == "Error processing encoding"
MsgEncodingFailed == "Encoding failed for model"
MsgUnsupportedModel == "Unsupported encoding model"
MsgUnsupportedType == "Unsupported algorithm type"
MsgCalculating == "Error calculating entropy with"
MsgNotFinite == "Calculated entropy is not finite"
MsgNegativeDimensions == "negative dimensions are not allowed"
MsgNoResults == "No entropy results were calculated"

Nil == "-"

NoError == [msg |-> Nil, encoding |-> Nil, inner |-> Nil, algorithm |-> Nil, reason |-> Nil]

\* raise ValueError(msg) outside the loop of get_stats
PlainError(msg) ==
  [msg |-> msg, encoding |-> Nil, inner |-> Nil, algorithm |-> Nil, reason |-> Nil]

\* faulty variant of CalculateEntropy: the finite check raises outside the
\* try, so its error is not wrapped and names no algorithm
CalculateEntropyCheckOutsideTry(data, encoding, algorithm) ==
  LET v == AlgoFunc(algorithm, data)
  IN IF v = "Unsupported"
     THEN [ok |-> FALSE, entropy |-> Nil,
           error |-> [inner |-> MsgUnsupportedType, algorithm |-> algorithm, reason |-> Nil]]
     ELSE IF v = "Raise"
     THEN [ok |-> FALSE, entropy |-> Nil,
           error |-> [inner |-> MsgCalculating, algorithm |-> algorithm,
                      reason |-> MsgNegativeDimensions]]
     ELSE IF ~IsFinite(v)
     THEN [ok |-> FALSE, entropy |-> v,
           error |-> [inner |-> MsgNotFinite, algorithm |-> Nil, reason |-> Nil]]
     ELSE [ok |-> TRUE, entropy |-> v, error |-> [inner |-> Nil, algorithm |-> Nil, reason |-> Nil]]

\* Order._calculate_entropy: the result, or the error it raises.  The finite
\* check is inside the try, so its ValueError is caught and wrapped like an
\* exception of the algorithm itself.
CalculateEntropy(data, encoding, algorithm) ==
  LET v == AlgoFunc(algorithm, data)
  IN IF v = "Unsupported"
     THEN [ok |-> FALSE, entropy |-> Nil,
           error |-> [inner |-> MsgUnsupportedType, algorithm |-> algorithm, reason |-> Nil]]
     ELSE IF v = "Raise"
     THEN [ok |-> FALSE, entropy |-> Nil,
           error |-> [inner |-> MsgCalculating, algorithm |-> algorithm,
                      reason |-> MsgNegativeDimensions]]
     ELSE IF ~IsFinite(v)
     THEN [ok |-> FALSE, entropy |-> v,
           error |-> [inner |-> MsgCalculating, algorithm |-> algorithm,
                      reason |-> MsgNotFinite]]
     ELSE [ok |-> TRUE, entropy |-> v, error |-> [inner |-> Nil, algorithm |-> Nil, reason |-> Nil]]

\* except Exception as e: raise ValueError(f"Error processing encoding ...")
ProcessingError(encoding, e) ==
  [msg |-> MsgProcessing, encoding |-> encoding, inner |-> e.inner,
   algorithm |-> e.algorithm, reason |-> e.reason]

\* get_stats: "if not data or not isinstance(data, str)"
ValidateData(d) ==
  IF d.chars = <<>> \/ ~d.isstr THEN MsgInvalidInput ELSE Nil

\* get_stats: the checks of a given encodings list
ValidateEncodings(e) ==
  IF ~e.given THEN Nil
  ELSE IF HasDuplicates(e.list) THEN MsgDuplicateEncodings
  ELSE IF \E i \in 1..Len(e.list) : e.list[i] \notin EncodingModel THEN MsgInvalidEncodings
  ELSE Nil

\* faulty variant of ValidateAlgorithms: duplicates are checked, membership
\* in the valid set is not
ValidateAlgorithmsDupOnly(a) ==
  IF ~a.given THEN Nil
  ELSE IF HasDuplicates(a.list) THEN MsgDuplicateAlgorithms
  ELSE Nil

\* faulty variant of ValidateAlgorithms: membership is checked before duplicates
ValidateAlgorithmsMembershipFirst(a) ==
  IF ~a.given THEN Nil
  ELSE IF \E i \in 1..Len(a.list) : a.list[i] \notin ValidAlgorithms THEN MsgUnsupportedAlgorithms
  ELSE IF HasDuplicates(a.list) THEN MsgDuplicateAlgorithms
  ELSE Nil

\* get_stats: the checks of a given algorithms list
ValidateAlgorithms(a) ==
  IF ~a.given THEN Nil
  ELSE IF HasDuplicates(a.list) THEN MsgDuplicateAlgorithms
  ELSE IF \E i \in 1..Len(a.list) : a.list[i] \notin ValidAlgorithms THEN MsgUnsupportedAlgorithms
  ELSE Nil

\* the first failing check of get_stats, in the order of the code
Validation(d, e, a) ==
  IF ValidateData(d) # Nil THEN ValidateData(d)
  ELSE IF ValidateEncodings(e) # Nil THEN ValidateEncodings(e)
  ELSE ValidateAlgorithms(a)

\* list(self._valid_algorithms): a list of the set in an unspecified order
DefaultAlgorithmOrders ==
  {s \in [1..Cardinality(ValidAlgorithms) -> ValidAlgorithms] : Range(s) = ValidAlgorithms}

\* ------------------------------------------------------------------- inputs
SeqsUpTo(S, n) == UNION {[1..k -> S] : k \in 0..n}

\* the texts "", "a", "aa", ... up to MaxLen characters, and three texts of
\* two different characters: "ab", "aab", "aaab", "abab"
Texts ==
  SeqsUpTo({97}, MaxLen)
    \cup {<<97, 98>>, <<97, 97, 98>>, <<97, 97, 97, 98>>, <<97, 98, 97, 98>>}

\* the texts, and two values that are no strings (None, and a non-empty list)
DataValues ==
  {[isstr |-> TRUE, chars |-> c] : c \in Texts}
    \cup {[isstr |-> FALSE, chars |-> <<>>], [isstr |-> FALSE, chars |-> <<97>>]}

NotAnEncoding == "not_an_encoding"

EncodingArgs ==
  {[given |-> FALSE, list |-> <<>>]}
    \cup {[given |-> TRUE, list |-> l] :
            l \in SeqsUpTo(EncodingModel \cup {NotAnEncoding}, MaxEncs)}

AlgorithmArgs ==
  {[given |-> FALSE, list |-> <<>>]}
    \cup {[given |-> TRUE, list |-> l] : l \in SeqsUpTo(AlgorithmType, MaxAlgs)}

\* -------------------------------------------------------------------- state
VARIABLES
  data,          \* get_stats argument: the text
  encodings,     \* get_stats argument: Optional[List[EncodingModel]]
  algorithms,    \* get_stats argument: Optional[List[AlgorithmType]]
  pc,            \* position of the call
  encs,          \* local encodings after defaulting
  algs,          \* local algorithms after defaulting
  ei,            \* index of encoding_model in encs
  ai,            \* index of algorithm in algs (0: encoding_model not yet encoded)
  encoded_data,  \* local encoded_data
  entropy,       \* the value the last algorithm call returned (Nil: it raised)
  sampA,         \* A at the return of a direct call of sample_entropy
  sampB,         \* B at the return of a direct call of sample_entropy
  dim,           \* argument m of a direct call of sample_entropy
  tol,           \* argument r of a direct call of sample_entropy (squared)
  results,       \* local results
  ncalls,        \* history: calls of encoder.encode and of algorithm functions
  outcome        \* what the caller receives

vars ==
  <<data, encodings, algorithms, pc, encs, algs, ei, ai, encoded_data, entropy,
    sampA, sampB, dim, tol, results, ncalls, outcome>>

NoData == [num |-> <<>>, den |-> 1]

NoTol == [n |-> 0, d |-> 1]

Pending == [status |-> "pending", results |-> <<>>, json |-> FALSE, error |-> NoError]

\* an exception leaves get_stats: the caller gets the error and nothing else
Raised(err) == [status |-> "raised", results |-> <<>>, json |-> FALSE, error |-> err]

\* return response.results, or the dict of the same results for json_response
Returned(res, json) == [status |-> "returned", results |-> res, json |-> json, error |-> NoError]

Init ==
  /\ data \in DataValues
  /\ encodings \in EncodingArgs
  /\ algorithms \in AlgorithmArgs
  /\ pc = "start"
  /\ encs = <<>>
  /\ algs = <<>>
  /\ ei = 0
  /\ ai = 0
  /\ encoded_data = NoData
  /\ entropy = Nil
  /\ sampA = 0
  /\ sampB = 0
  /\ dim = 0
  /\ tol = NoTol
  /\ results = <<>>
  /\ ncalls = [encode |-> 0, algo |-> 0]
  /\ outcome = Pending

\* get_stats, lines 94-122: input validation and defaulting
Validate ==
  /\ pc = "start"
  /\ LET v == Validation(data, encodings, algorithms)
     IN IF v # Nil
        THEN /\ outcome' = Raised(PlainError(v))
             /\ pc' = "done"
             /\ UNCHANGED <<encs, algs, ei>>
        ELSE /\ encs' = IF encodings.given THEN encodings.list ELSE <<"frequency">>
             /\ IF algorithms.given
                THEN algs' = algorithms.list
                ELSE algs' \in DefaultAlgorithmOrders
             /\ ei' = 1
             /\ pc' = "loop"
             /\ UNCHANGED outcome
  /\ UNCHANGED <<data, encodings, algorithms, ai, encoded_data, entropy, sampA, sampB,
                 dim, tol, results, ncalls>>

\* get_stats, lines 125-129: encode the text for the next encoding_model
EncodeStep ==
  /\ pc = "loop"
  /\ ei <= Len(encs)
  /\ ai = 0
  /\ \E enc \in {Encode(data.chars, encs[ei])} :
        /\ encoded_data' = enc.array
        /\ ncalls' = [ncalls EXCEPT !.encode = @ + 1]
        /\ IF ~enc.ok \/ Len(enc.array.num) = 0
           THEN /\ outcome' = Raised(ProcessingError(encs[ei],
                     [inner |-> IF enc.ok THEN MsgEncodingFailed ELSE MsgUnsupportedModel,
                      algorithm |-> Nil, reason |-> Nil]))
                /\ pc' = "done"
                /\ UNCHANGED <<ei, ai>>
           ELSE /\ IF Len(algs) = 0
                   THEN ei' = ei + 1 /\ ai' = 0
                   ELSE ei' = ei /\ ai' = 1
                /\ UNCHANGED <<pc, outcome>>
  /\ UNCHANGED <<data, encodings, algorithms, encs, algs, entropy, sampA, sampB, dim, tol,
                 results>>

\* faulty variant of AlgoStep: the result is inserted at the front of results
AlgoStepPrepend ==
  /\ pc = "loop"
  /\ ei <= Len(encs)
  /\ ai >= 1
  /\ \E c \in {CalculateEntropy(encoded_data, encs[ei], algs[ai])} :
        /\ ncalls' = [ncalls EXCEPT !.algo = @ + 1]
        /\ entropy' = c.entropy
        /\ IF c.ok
           THEN /\ results' = <<[encoding |-> encs[ei], algorithm |-> algs[ai],
                                  entropy |-> c.entropy]>> \o results
                /\ IF ai = Len(algs)
                   THEN ei' = ei + 1 /\ ai' = 0
                   ELSE ei' = ei /\ ai' = ai + 1
                /\ UNCHANGED <<pc, outcome>>
           ELSE /\ outcome' = Raised(ProcessingError(encs[ei], c.error))
                /\ pc' = "done"
                /\ UNCHANGED <<results, ei, ai>>
  /\ UNCHANGED <<data, encodings, algorithms, encs, algs, encoded_data, sampA, sampB, dim, tol>>


\* faulty variant of AlgoStep: a failed pair is skipped and the loop goes on
AlgoStepSkipFailed ==
  /\ pc = "loop"
  /\ ei <= Len(encs)
  /\ ai >= 1
  /\ \E c \in {CalculateEntropy(encoded_data, encs[ei], algs[ai])} :
        /\ ncalls' = [ncalls EXCEPT !.algo = @ + 1]
        /\ entropy' = c.entropy
        /\ results' = IF c.ok
                      THEN Append(results, [encoding |-> encs[ei], algorithm |-> algs[ai],
                                            entropy |-> c.entropy])
                      ELSE results
        /\ IF ai = Len(algs)
           THEN ei' = ei + 1 /\ ai' = 0
           ELSE ei' = ei /\ ai' = ai + 1
        /\ UNCHANGED <<pc, outcome>>
  /\ UNCHANGED <<data, encodings, algorithms, encs, algs, encoded_data, sampA, sampB, dim, tol>>


\* get_stats, lines 131-139: _calculate_entropy for the next algorithm
AlgoStep ==
  /\ pc = "loop"
  /\ ei <= Len(encs)
  /\ ai >= 1
  /\ \E c \in {CalculateEntropy(encoded_data, encs[ei], algs[ai])} :
        /\ ncalls' = [ncalls EXCEPT !.algo = @ + 1]
        /\ entropy' = c.entropy
        /\ IF c.ok
           THEN /\ results' = Append(results,
                     [encoding |-> encs[ei], algorithm |-> algs[ai], entropy |-> c.entropy])
                /\ IF ai = Len(algs)
                   THEN ei' = ei + 1 /\ ai' = 0
                   ELSE ei' = ei /\ ai' = ai + 1
                /\ UNCHANGED <<pc, outcome>>
           ELSE /\ outcome' = Raised(ProcessingError(encs[ei], c.error))
                /\ pc' = "done"
                /\ UNCHANGED <<results, ei, ai>>
  /\ UNCHANGED <<data, encodings, algorithms, encs, algs, encoded_data, sampA, sampB, dim, tol>>

\* faulty variant of Finish: the empty check dropped
FinishNoEmptyCheck ==
  /\ pc = "loop"
  /\ ei > Len(encs)
  /\ \E json_response \in BOOLEAN : outcome' = Returned(results, json_response)
  /\ pc' = "done"
  /\ UNCHANGED <<data, encodings, algorithms, encs, algs, ei, ai, encoded_data, entropy,
                 sampA, sampB, dim, tol, results, ncalls>>


\* get_stats, lines 141-156: the empty check and the return
Finish ==
  /\ pc = "loop"
  /\ ei > Len(encs)
  /\ IF results = <<>>
     THEN outcome' = Raised(PlainError(MsgNoResults))
     ELSE \E json_response \in BOOLEAN : outcome' = Returned(results, json_response)
  /\ pc' = "done"
  /\ UNCHANGED <<data, encodings, algorithms, encs, algs, ei, ai, encoded_data, entropy,
                 sampA, sampB, dim, tol, results, ncalls>>

Next == Validate \/ EncodeStep \/ AlgoStep \/ Finish

Spec == Init /\ [][Next]_vars

\* ----------------------------------------------- ChaosEncoder.encode, alone
\* code points of "0", "a", "\xff" (the last 8-bit one) and "Ā"
EncChars == {48, 97, 255, 256}

InitEncode ==
  /\ data \in {[isstr |-> TRUE, chars |-> c] : c \in SeqsUpTo(EncChars, MaxEncLen)}
  /\ encs \in {<<e>> : e \in EncodingModel}
  /\ encodings = [given |-> FALSE, list |-> <<>>]
  /\ algorithms = [given |-> FALSE, list |-> <<>>]
  /\ pc = "encode"
  /\ algs = <<>>
  /\ ei = 1
  /\ ai = 0
  /\ encoded_data = NoData
  /\ entropy = Nil
  /\ sampA = 0
  /\ sampB = 0
  /\ dim = 0
  /\ tol = NoTol
  /\ results = <<>>
  /\ ncalls = [encode |-> 0, algo |-> 0]
  /\ outcome = Pending

\* a call encoder.encode(text, model)
ApplyEncode ==
  /\ pc = "encode"
  /\ encoded_data' = Encode(data.chars, encs[1]).array
  /\ ncalls' = [ncalls EXCEPT !.encode = @ + 1]
  /\ pc' = "encoded"
  /\ UNCHANGED <<data, encodings, algorithms, encs, algs, ei, ai, entropy, sampA, sampB,
                 dim, tol, results, outcome>>

NextEncode == ApplyEncode

SpecEncode == InitEncode /\ [][NextEncode]_vars

\* ---------------------------------------- Algorithms.sample_entropy, alone
SampleValues == {0, 1, 2, 3}

\* r = 0, 1/2, 1, 3/2 (as r * r)
Tolerances ==
  {[n |-> 0, d |-> 1], [n |-> 1, d |-> 4], [n |-> 1, d |-> 1], [n |-> 9, d |-> 4]}

InitSampEn ==
  /\ encoded_data \in {[num |-> q, den |-> 1] : q \in SeqsUpTo(SampleValues, MaxSeqLen)}
  /\ dim \in 1..MaxDim
  /\ tol \in Tolerances
  /\ data = [isstr |-> TRUE, chars |-> <<>>]
  /\ encodings = [given |-> FALSE, list |-> <<>>]
  /\ algorithms = [given |-> FALSE, list |-> <<>>]
  /\ pc = "sample_entropy"
  /\ encs = <<>>
  /\ algs = <<>>
  /\ ei = 0
  /\ ai = 0
  /\ entropy = Nil
  /\ sampA = 0
  /\ sampB = 0
  /\ results = <<>>
  /\ ncalls = [encode |-> 0, algo |-> 0]
  /\ outcome = Pending

\* a call sample_entropy(time_series, m, r)
ApplySampleEntropy ==
  /\ pc = "sample_entropy"
  /\ sampA' = SampEnA(encoded_data, dim, tol)
  /\ sampB' = SampEnB(encoded_data, dim, tol)
  /\ entropy' = SampleEntropy(encoded_data, dim, tol)
  /\ ncalls' = [ncalls EXCEPT !.algo = @ + 1]
  /\ pc' = "sample_entropy_done"
  /\ UNCHANGED <<data, encodings, algorithms, encs, algs, ei, ai, encoded_data, dim, tol,
                 results, outcome>>

NextSampEn == ApplySampleEntropy

SpecSampEn == InitSampEn /\ [][NextSampEn]_vars

\* ------------------------------------------------------------------ claims
ValidText == data.isstr /\ data.chars # <<>>

ValidEncodingsArg ==
  \/ ~encodings.given
  \/ /\ ~HasDuplicates(encodings.list)
     /\ \A i \in 1..Len(encodings.list) : encodings.list[i] \in EncodingModel

ValidAlgorithmsArg ==
  \/ ~algorithms.given
  \/ /\ ~HasDuplicates(algorithms.list)
     /\ \A i \in 1..Len(algorithms.list) : algorithms.list[i] \in ValidAlgorithms

HasRaised(msg) == outcome.status = "raised" /\ outcome.error.msg = msg

\* the call get_stats("aaaa") with encodings and algorithms left to default
AaaaDefault ==
  /\ data = [isstr |-> TRUE, chars |-> <<97, 97, 97, 97>>]
  /\ ~encodings.given
  /\ ~algorithms.given

\* C1, as stated: get_stats("aaaa") with default encodings and algorithms
\* returns exactly 4 results, the frequency encoding with each of the four
\* valid algorithms, every entropy finite and the Shannon entropy 0.
C1_AaaaReturnsFourFinite ==
  (AaaaDefault /\ pc = "done") =>
    /\ outcome.status = "returned"
    /\ Len(outcome.results) = 4
    /\ {outcome.results[k].algorithm : k \in 1..Len(outcome.results)} = ValidAlgorithms
    /\ \A k \in 1..Len(outcome.results) :
         /\ outcome.results[k].encoding = "frequency"
         /\ outcome.results[k].entropy \in {"Zero", "Fin"}
         /\ outcome.results[k].algorithm = "shannon_entropy"
              => outcome.results[k].entropy = "Zero"

\* C1, amended: get_stats("aaaa") with default encodings and algorithms never
\* returns: the frequency encoding is constant, so r = 0, approximate entropy
\* is NaN and sample entropy +infinity, and the call raises the not-finite
\* error for frequency and whichever of the two comes first in the default
\* order; the caller gets no results.  The Shannon entropy computed on the
\* way is 0.
C1_AaaaRaisesNotFinite ==
  AaaaDefault =>
    /\ \A k \in 1..Len(results) :
         /\ results[k].encoding = "frequency"
         /\ results[k].algorithm = "shannon_entropy" => results[k].entropy = "Zero"
    /\ pc = "done" =>
         /\ outcome.status = "raised"
         /\ outcome.results = <<>>
         /\ outcome.error.msg = MsgProcessing
         /\ outcome.error.encoding = "frequency"
         /\ outcome.error.algorithm \in {"approximate_entropy", "sample_entropy"}
         /\ outcome.error.reason = MsgNotFinite

\* C1 witness: the default call on "aaaa" has ended, after Shannon was computed
C1_Witness ==
  /\ AaaaDefault
  /\ pc = "done"
  /\ outcome.status = "raised"
  /\ \E k \in 1..Len(results) : results[k].algorithm = "shannon_entropy"

\* C2: when get_stats returns for explicitly given lists e1..ep and a1..aq,
\* it returns exactly p * q results and the result at position (i-1)*q + j
\* has encoding ei and algorithm aj.
C2_ResultsInRequestOrder ==
  (outcome.status = "returned" /\ encodings.given /\ algorithms.given) =>
    LET p == Len(encodings.list)
        q == Len(algorithms.list)
    IN /\ Len(outcome.results) = p * q
       /\ \A i \in 1..p : \A j \in 1..q :
            /\ outcome.results[(i - 1) * q + j].encoding = encodings.list[i]
            /\ outcome.results[(i - 1) * q + j].algorithm = algorithms.list[j]

\* C2 witness: a normal return for two given encodings and two given algorithms
C2_Witness ==
  /\ outcome.status = "returned"
  /\ encodings.given /\ Len(encodings.list) = 2
  /\ algorithms.given /\ Len(algorithms.list) = 2
  /\ Len(outcome.results) = 4

ValidationMsgs ==
  {MsgInvalidInput, MsgDuplicateEncodings, MsgInvalidEncodings, MsgDuplicateAlgorithms,
   MsgUnsupportedAlgorithms}

\* an error that reports an invalid text, encoding selection or algorithm
\* selection, raised directly or from inside the loop
IsValidationFailure(err) ==
  \/ err.msg \in ValidationMsgs
  \/ err.inner \in {MsgUnsupportedType, MsgUnsupportedModel}

\* C3: a validation failure (text, encodings, algorithms) is raised before the
\* encoder or any algorithm function has been called.
C3_ValidationBeforeComputation ==
  (outcome.status = "raised" /\ IsValidationFailure(outcome.error)) =>
    ncalls.encode = 0 /\ ncalls.algo = 0

\* C3 witness: an unsupported algorithm is rejected for a text and encodings
\* that are valid, with nothing computed
C3_Witness ==
  /\ ValidText
  /\ encodings.given /\ encodings.list # <<>>
  /\ HasRaised(MsgUnsupportedAlgorithms)
  /\ ncalls = [encode |-> 0, algo |-> 0]

\* C4: every result of a returned collection carries a finite entropy, never
\* NaN or an infinity.
C4_ReturnedEntropiesFinite ==
  outcome.status = "returned" =>
    \A k \in 1..Len(outcome.results) : outcome.results[k].entropy \in {"Zero", "Fin"}

\* C4 witness: a returned collection that holds a sample entropy
C4_Witness ==
  /\ outcome.status = "returned"
  /\ \E k \in 1..Len(outcome.results) : outcome.results[k].algorithm = "sample_entropy"

\* the kind of an error: its message layers, without what they name
ErrorKind(err) == <<err.msg, err.inner>>

\* the kind raised when an algorithm function itself raises
ComputationErrorKind == <<MsgProcessing, MsgCalculating>>

\* the algorithm function just returned NaN or an infinity
NonFiniteReturned == pc \in {"loop", "done"} /\ entropy \in {"NaN", "Inf"}

\* C5, as stated: when an algorithm returns NaN or an infinity, get_stats
\* raises an error that names the encoding and the algorithm, of a kind
\* distinct from the kind raised when an algorithm itself raises.
C5_NonFiniteKindDistinct ==
  NonFiniteReturned =>
    /\ outcome.status = "raised"
    /\ outcome.error.encoding = encs[ei]
    /\ outcome.error.algorithm = algs[ai]
    /\ outcome.error.reason = MsgNotFinite
    /\ ErrorKind(outcome.error) # ComputationErrorKind

\* C5, amended: when an algorithm returns NaN or an infinity, get_stats raises
\* an error that names the encoding and the algorithm and carries the reason
\* "not finite"; it is raised through the same wrapping, hence as the same
\* kind, as the error for an algorithm that itself raises, and differs from
\* it in the reason only.
C5_NonFiniteWrappedAsComputationError ==
  /\ NonFiniteReturned =>
       /\ outcome.status = "raised"
       /\ outcome.error.encoding = encs[ei]
       /\ outcome.error.algorithm = algs[ai]
       /\ outcome.error.reason = MsgNotFinite
       /\ ErrorKind(outcome.error) = ComputationErrorKind
  /\ (outcome.status = "raised" /\ outcome.error.reason = MsgNegativeDimensions) =>
       /\ entropy = Nil
       /\ outcome.error.encoding = encs[ei]
       /\ outcome.error.algorithm = algs[ai]
       /\ ErrorKind(outcome.error) = ComputationErrorKind

\* C5 witness: sample entropy returned +infinity after an earlier pair succeeded
C5_Witness ==
  /\ entropy = "Inf"
  /\ outcome.status = "raised"
  /\ algs[ai] = "sample_entropy"
  /\ results # <<>>

\* C6: for a non-empty text and valid encodings, a repeated algorithm raises
\* the duplicate error, a duplicate-free list with an element outside the
\* valid set (Multiscale included) raises the unsupported error; an empty text
\* raises the invalid-input error whatever the other arguments; no returned
\* result has algorithm multiscale_entropy.
C6_SelectionErrors ==
  /\ pc = "done" =>
       /\ (data.isstr /\ data.chars = <<>>) => HasRaised(MsgInvalidInput)
       /\ (ValidText /\ ValidEncodingsArg /\ algorithms.given
             /\ HasDuplicates(algorithms.list)) => HasRaised(MsgDuplicateAlgorithms)
       /\ (ValidText /\ ValidEncodingsArg /\ algorithms.given
             /\ ~HasDuplicates(algorithms.list)
             /\ \E i \in 1..Len(algorithms.list) : algorithms.list[i] \notin ValidAlgorithms)
            => HasRaised(MsgUnsupportedAlgorithms)
  /\ outcome.status = "returned" =>
       \A k \in 1..Len(outcome.results) :
         outcome.results[k].algorithm # "multiscale_entropy"

\* C6 witness: Multiscale twice, for a valid text and valid given encodings
C6_Witness ==
  /\ pc = "done"
  /\ ValidText
  /\ encodings.given /\ ValidEncodingsArg
  /\ algorithms.list = <<"multiscale_entropy", "multiscale_entropy">>
  /\ HasRaised(MsgDuplicateAlgorithms)

\* some (encoding, algorithm) pair of the call raises or is rejected
SomePairFails ==
  \E i \in 1..Len(encs) : \E j \in 1..Len(algs) :
    \/ ~Encode(data.chars, encs[i]).ok
    \/ ~CalculateEntropy(Encode(data.chars, encs[i]).array, encs[i], algs[j]).ok

\* C7: if the computation of any one pair raises or is rejected, the call
\* raises and the caller receives no results, those of earlier pairs included.
C7_AllOrNothing ==
  /\ (pc = "done" /\ SomePairFails) => outcome.status = "raised"
  /\ outcome.status = "raised" => outcome.results = <<>>

\* C7 witness: a pair failed after results of earlier pairs were computed
C7_Witness ==
  /\ pc = "done"
  /\ outcome.status = "raised"
  /\ outcome.error.msg = MsgProcessing
  /\ Len(results) >= 2
  /\ outcome.results = <<>>

\* C8: get_stats never returns an empty collection; with encodings or
\* algorithms given as an empty list (and valid arguments otherwise) it raises
\* the empty-result error.
C8_NeverReturnsEmpty ==
  /\ outcome.status = "returned" => outcome.results # <<>>
  /\ (pc = "done" /\ ValidText /\ ValidEncodingsArg /\ ValidAlgorithmsArg
        /\ \/ encodings.given /\ encodings.list = <<>>
           \/ algorithms.given /\ algorithms.list = <<>>)
       => HasRaised(MsgNoResults)

\* C8 witness: an empty algorithms list, after the text was encoded twice
C8_Witness ==
  /\ pc = "done"
  /\ algorithms.given /\ algorithms.list = <<>>
  /\ ncalls.encode = 2
  /\ HasRaised(MsgNoResults)

\* the number whose 8-bit big-endian representation is block i of the output
BlockValue(num, i) ==
  SumSeq([k \in 1..8 |-> num[8 * (i - 1) + k] * 2 ^ (8 - k)])

\* C9: binary encoding of a text of length L has exactly 8 * L elements, each
\* 0 or 1, and block i of 8 elements is the zero-padded binary representation,
\* most significant bit first, of the code point of character i.
C9_BinaryEightPerCharacter ==
  (pc = "encoded" /\ encs[1] = "binary") =>
    /\ Len(encoded_data.num) = 8 * Len(data.chars)
    /\ \A p \in 1..Len(encoded_data.num) : encoded_data.num[p] \in {0, 1}
    /\ \A i \in 1..Len(data.chars) : BlockValue(encoded_data.num, i) = data.chars[i]

\* every value exceeds its predecessor
StrictlyIncreasing(q) == \A i \in 1..(Len(q) - 1) : q[i] < q[i + 1]

\* r is below every gap between consecutive values
BelowMinGap(q, rsq) ==
  \A i \in 1..(Len(q) - 1) :
    rsq.n < (q[i + 1] - q[i]) * (q[i + 1] - q[i]) * rsq.d

\* C10: sample_entropy returns +infinity, without raising, whenever A = 0 or
\* B = 0; in particular for a strictly increasing sequence with r below its
\* minimum gap, and for a sequence too short for two windows of length m.
C10_SampEnInfiniteOnZeroCount ==
  pc = "sample_entropy_done" =>
    /\ (sampA = 0 \/ sampB = 0) => entropy = "Inf"
    /\ (StrictlyIncreasing(encoded_data.num) /\ BelowMinGap(encoded_data.num, tol))
         => entropy = "Inf"
    /\ Len(encoded_data.num) < dim + 1 => entropy = "Inf"

\* C10 witness: a strictly increasing sequence of four values, r below its gaps
C10_Witness ==
  /\ pc = "sample_entropy_done"
  /\ Len(encoded_data.num) = 4
  /\ StrictlyIncreasing(encoded_data.num)
  /\ BelowMinGap(encoded_data.num, tol)
  /\ tol.n > 0
  /\ entropy = "Inf"

\* the ordered pairs (i, j), i # j, of windows of length d within tolerance,
\* every one of the Len(num) - d + 1 windows taken as i
AllOrderedPairs(num, d, den, rsq) ==
  LET n == Max(Len(num) - d + 1, 0)
  IN Cardinality({p \in (1..n) \X (1..n) :
                    p[1] # p[2] /\ Within(num, p[1], p[2], d, den, rsq)})

\* C11: in sample_entropy, B is the number of ordered pairs (i, j), i # j,
\* over all N - m + 1 windows of length m with Chebyshev distance < r, and A
\* the same count over all N - m windows of length m + 1; every window, the
\* last one included, is used as the first element i.
C11_CountsOverAllWindows ==
  pc = "sample_entropy_done" =>
    /\ sampB = AllOrderedPairs(encoded_data.num, dim, encoded_data.den, tol)
    /\ sampA = AllOrderedPairs(encoded_data.num, dim + 1, encoded_data.den, tol)

====
